---------------------------- MODULE Spec2Model ----------------------------
(***************************************************************************)
(* Medicaid claims outlier detection (bbneo/medicaid-payments).            *)
(*                                                                         *)
(*   medicaid_outliers-stream.py  streaming variant: safe_ratio,           *)
(*                                detect_outliers (four metrics), main     *)
(*   medicaid_outliers.py         chunked variant: detect_outliers         *)
(*                                (TOTAL_PAID only), main                  *)
(*                                                                         *)
(* Three specifications share the variables:                               *)
(*   SpecDetect   one call of the streaming detect_outliers on a group     *)
(*   Spec         a run of the streaming main                              *)
(*   SpecChunked  a run of the chunked main                                *)
(*                                                                         *)
(* Numbers are exact rationals <<"num", n, d>> (d > 0, lowest terms), with *)
(* NaN and +inf as separate values; float rounding is not modelled.        *)
(* CSV field values are sequences of characters. Python's 0-based          *)
(* positions are 1-based here.                                             *)
(***************************************************************************)
EXTENDS Integers, Sequences, FiniteSets, TLC

VARIABLES
    pc,                    \* position in the program being run
    group_rows,            \* detect_outliers: its argument
    returned,              \* detect_outliers: its return value
    outlier_rows,          \* stream main: flagged rows accumulated
    current_group_rows,    \* stream main: buffer of the current group
    current_key,           \* stream main: key of the current group (None at first)
    total_outliers,        \* stream main: counter
    total_rows_processed,  \* stream main: counter (chunked main: total_rows)
    sink,                  \* the output file: Unopened, or the rows written
    input,                 \* history: records read from csv_file so far
    calls,                 \* history: arguments of the detect_outliers calls so far
    chunk_size,            \* chunked main: argument
    partial_groups,        \* chunked main: key -> list of per-chunk sub-frames
    outlier_dfs            \* chunked main: non-empty detect_outliers results

vars == <<pc, group_rows, returned, outlier_rows, current_group_rows, current_key,
          total_outliers, total_rows_processed, sink, input, calls,
          chunk_size, partial_groups, outlier_dfs>>

-----------------------------------------------------------------------------
(* Bounds of the model *)

\* longest group handed to detect_outliers in SpecDetect
MaxGroupLen == 5

\* most records the streaming main reads in Spec
MaxRows == 7

\* most records the chunked main reads in SpecChunked
MaxChunkedRows == 6

\* largest chunk_size tried in SpecChunked
MaxChunkSize == 3

-----------------------------------------------------------------------------
(* Numbers: exact rationals, NaN, +inf *)

NaN == <<"nan", 0, 1>>

Inf == <<"inf", 0, 1>>

RECURSIVE GCD(_, _)
GCD(a, b) == IF b = 0 THEN a ELSE GCD(b, a % b)

Abs(n) == IF n < 0 THEN -n ELSE n

\* n/d in lowest terms with a positive denominator (d # 0)
Num(n, d) ==
    LET g == GCD(Abs(n), Abs(d))
        s == IF d < 0 THEN -1 ELSE 1
    IN <<"num", s * (n \div g), s * (d \div g)>>

IsNum(v) == v[1] = "num"

\* pd.notna / the complement of what dropna drops
notna(v) == v[1] # "nan"

Add(a, b) == Num(a[2] * b[3] + b[2] * a[3], a[3] * b[3])

Sub(a, b) == Num(a[2] * b[3] - b[2] * a[3], a[3] * b[3])

Mul(a, b) == Num(a[2] * b[2], a[3] * b[3])

Div(a, b) == Num(a[2] * b[3], a[3] * b[2])

\* a < b on floats: False when either is NaN; +inf is above every number
Less(a, b) ==
    CASE a[1] = "nan" \/ b[1] = "nan" -> FALSE
      [] a[1] = "inf" -> FALSE
      [] b[1] = "inf" -> TRUE
      [] OTHER -> a[2] * b[3] < b[2] * a[3]

\* a > b on floats
Greater(a, b) == Less(b, a)

IsZero(v) == IsNum(v) /\ v[2] = 0

-----------------------------------------------------------------------------
(* Records and field values *)

DigitChars == {"0", "1", "2", "3", "4", "5", "6", "7", "8", "9"}

DigitVal ==
    "0" :> 0 @@ "1" :> 1 @@ "2" :> 2 @@ "3" :> 3 @@ "4" :> 4 @@
    "5" :> 5 @@ "6" :> 6 @@ "7" :> 7 @@ "8" :> 8 @@ "9" :> 9

\* a CSV record as csv.DictReader yields it: field name -> string
Row(hcpcs, month, npi, paid, benef, claims) ==
    [HCPCS_CODE |-> hcpcs, CLAIM_FROM_MONTH |-> month,
     BILLING_PROVIDER_NPI_NUM |-> npi, TOTAL_PAID |-> paid,
     TOTAL_UNIQUE_BENEFICIARIES |-> benef, TOTAL_CLAIMS |-> claims]

-----------------------------------------------------------------------------
(* medicaid_outliers-stream.py: safe_ratio, detect_outliers *)

\* the group size below which nothing is flagged
MinGroupRows == 4

RECURSIVE ParseDigits(_, _)
ParseDigits(s, acc) ==
    IF s = <<>> THEN acc
    ELSE ParseDigits(Tail(s), 10 * acc + DigitVal[Head(s)])

\* a variant that reads an unparseable value as 0 instead of NaN
to_numeric_zero(s) ==
    IF s # <<>> /\ \A i \in 1..Len(s) : s[i] \in DigitChars
    THEN Num(ParseDigits(s, 0), 1)
    ELSE Num(0, 1)

\* pd.to_numeric(value, errors='coerce') on one field value: a decimal
\* numeral parses to its value (leading zeros allowed), anything else to NaN
to_numeric(s) ==
    IF s # <<>> /\ \A i \in 1..Len(s) : s[i] \in DigitChars
    THEN Num(ParseDigits(s, 0), 1)
    ELSE NaN

\* a variant that divides by 1 when the denominator is 0
safe_ratio_no_guard(numerator, denominator) ==
    IF ~IsZero(denominator) THEN Div(numerator, denominator) ELSE numerator

safe_ratio(numerator, denominator) ==
    IF ~IsZero(denominator) THEN Div(numerator, denominator) ELSE NaN

\* DataFrame.dropna(subset=...): the rows keep their index labels
dropna(df, subset) ==
    SelectSeq(df, LAMBDA r : \A c \in subset : notna(r[c]))

\* df[col] as a sequence of values
Column(df, col) == [i \in 1..Len(df) |-> df[i][col]]

RECURSIVE Insert(_, _)
Insert(v, sorted) ==
    IF sorted = <<>> THEN <<v>>
    ELSE IF Less(v, Head(sorted)) THEN <<v>> \o sorted
    ELSE <<Head(sorted)>> \o Insert(v, Tail(sorted))

RECURSIVE sort_values(_)
sort_values(series) ==
    IF series = <<>> THEN <<>>
    ELSE Insert(Head(series), sort_values(Tail(series)))

\* Series.quantile(qn/qd), pandas' default linear interpolation: NaN values
\* are skipped, the result lies at position (n-1)*q of the sorted values
quantile(series, qn, qd) ==
    LET vals == sort_values(SelectSeq(series, notna))
        n == Len(vals)
        k == (n - 1) * qn
        lo == k \div qd
        r == k % qd
    IN IF n = 0 THEN NaN
       ELSE IF r = 0 THEN vals[lo + 1]
       ELSE Add(vals[lo + 1], Mul(Sub(vals[lo + 2], vals[lo + 1]), Num(r, qd)))

\* a variant that forgets the 1.5 * iqr term
get_upper_bound_q3(series) ==
    IF Len(series) < MinGroupRows THEN Inf ELSE quantile(series, 3, 4)

get_upper_bound(series) ==
    IF Len(series) < MinGroupRows THEN Inf
    ELSE LET q1 == quantile(series, 1, 4)
             q3 == quantile(series, 3, 4)
             iqr == Sub(q3, q1)
         IN Add(q3, Mul(Num(3, 2), iqr))

RECURSIVE join(_)
\* ','.join(flags)
join(flags) ==
    IF flags = <<>> THEN ""
    ELSE IF Len(flags) = 1 THEN flags[1]
    ELSE flags[1] \o "," \o join(Tail(flags))

\* one flag of the flagging loop: notna(value) and value > bound
Flag(name, value, bound) ==
    IF notna(value) /\ Greater(value, bound) THEN <<name>> ELSE <<>>

\* a variant that flags a value equal to the bound
RowFlagsInclusive(row, bounds) ==
    LET F(name, value, bound) ==
            IF notna(value) /\ ~Less(value, bound) THEN <<name>> ELSE <<>>
    IN F("high_total_paid", row.TOTAL_PAID, bounds.high_total_paid)
       \o F("high_paid_per_benef", row.PAID_PER_BENEF, bounds.high_paid_per_benef)
       \o F("high_paid_per_claim", row.PAID_PER_CLAIM, bounds.high_paid_per_claim)
       \o F("high_unique_beneficiaries", row.TOTAL_UNIQUE_BENEFICIARIES,
            bounds.high_unique_benef)

\* the flags of one row of df, in the order the loop body tests them
RowFlags(row, bounds) ==
    Flag("high_total_paid", row.TOTAL_PAID, bounds.high_total_paid)
    \o Flag("high_paid_per_benef", row.PAID_PER_BENEF, bounds.high_paid_per_benef)
    \o Flag("high_paid_per_claim", row.PAID_PER_CLAIM, bounds.high_paid_per_claim)
    \o Flag("high_unique_beneficiaries", row.TOTAL_UNIQUE_BENEFICIARIES,
            bounds.high_unique_benef)

\* a variant that indexes group_rows by the row's position in the filtered df
original_row_by_position(rows, df, i) == rows[i]

\* original_row = group_rows[idx], idx the index label of the i-th row of df
original_row(rows, df, i) == rows[df[i].idx]

\* original_row['OUTLIER_REASONS'] = ','.join(flags)
SetReasons(row, flags) == ("OUTLIER_REASONS" :> join(flags)) @@ row

RECURSIVE FlagLoop(_, _, _, _)
\* for idx in df.index: ... (rows i..Len(df) of df)
FlagLoop(rows, df, bounds, i) ==
    IF i > Len(df) THEN <<>>
    ELSE LET flags == RowFlags(df[i], bounds)
             rest == FlagLoop(rows, df, bounds, i + 1)
         IN IF flags # <<>>
            THEN <<SetReasons(original_row(rows, df, i), flags)>> \o rest
            ELSE rest

numeric_cols == {"TOTAL_PAID", "TOTAL_UNIQUE_BENEFICIARIES", "TOTAL_CLAIMS"}

\* pd.DataFrame(group_rows) with the three numeric columns coerced
CoercedFrame(rows) ==
    [i \in 1..Len(rows) |->
        [idx |-> i,
         TOTAL_PAID |-> to_numeric(rows[i].TOTAL_PAID),
         TOTAL_UNIQUE_BENEFICIARIES |-> to_numeric(rows[i].TOTAL_UNIQUE_BENEFICIARIES),
         TOTAL_CLAIMS |-> to_numeric(rows[i].TOTAL_CLAIMS)]]

\* df with the PAID_PER_BENEF and PAID_PER_CLAIM columns added
WithRatios(df) ==
    [i \in 1..Len(df) |->
        [idx |-> df[i].idx,
         TOTAL_PAID |-> df[i].TOTAL_PAID,
         TOTAL_UNIQUE_BENEFICIARIES |-> df[i].TOTAL_UNIQUE_BENEFICIARIES,
         TOTAL_CLAIMS |-> df[i].TOTAL_CLAIMS,
         PAID_PER_BENEF |-> safe_ratio(df[i].TOTAL_PAID, df[i].TOTAL_UNIQUE_BENEFICIARIES),
         PAID_PER_CLAIM |-> safe_ratio(df[i].TOTAL_PAID, df[i].TOTAL_CLAIMS)]]

\* the thresholds of the four metrics over df_clean
Bounds(df_clean) ==
    [high_total_paid |-> get_upper_bound(Column(df_clean, "TOTAL_PAID")),
     high_paid_per_benef |-> get_upper_bound(Column(df_clean, "PAID_PER_BENEF")),
     high_paid_per_claim |-> get_upper_bound(Column(df_clean, "PAID_PER_CLAIM")),
     high_unique_benef |->
         get_upper_bound(Column(df_clean, "TOTAL_UNIQUE_BENEFICIARIES"))]

detect_outliers(rows) ==
    IF Len(rows) < MinGroupRows THEN <<>>
    ELSE LET df0 == dropna(CoercedFrame(rows), numeric_cols)
         IN IF Len(df0) < MinGroupRows THEN <<>>
            ELSE LET df == WithRatios(df0)
                     df_clean == dropna(df, {"PAID_PER_BENEF", "PAID_PER_CLAIM"})
                 IN IF Len(df_clean) < MinGroupRows THEN <<>>
                    ELSE FlagLoop(rows, df, Bounds(df_clean), 1)

-----------------------------------------------------------------------------
(* SpecDetect: one call of the streaming detect_outliers *)

\* the key the current group has before the first record is read
None == <<>>

\* the output file before open(output_file, 'w')
Unopened == [opened |-> FALSE, rows |-> <<>>]

\* the records a group is drawn from: a baseline, a reformatted numeral, high
\* values, zero denominators and an unparseable value
DetectRows ==
    {Row("A", "2024-01", "p1", <<"1">>, <<"1">>, <<"1">>),
     Row("A", "2024-01", "p1", <<"0", "1">>, <<"1">>, <<"1">>),
     Row("A", "2024-01", "p2", <<"0", "8">>, <<"1">>, <<"1">>),
     Row("A", "2024-01", "p2", <<"8">>, <<"0">>, <<"1">>),
     Row("A", "2024-01", "p3", <<"x">>, <<"1">>, <<"1">>),
     Row("A", "2024-01", "p3", <<"2">>, <<"9">>, <<"0">>),
     Row("A", "2024-01", "p4", <<"2">>, <<"9">>, <<"2">>)}

PaidRow(paid) == Row("A", "2024-01", "p1", paid, <<"1">>, <<"1">>)

\* TOTAL_PAID values 10, 12, 13, 14, 15, 100
ScenarioGroup ==
    <<PaidRow(<<"1", "0">>), PaidRow(<<"1", "2">>), PaidRow(<<"1", "3">>),
      PaidRow(<<"1", "4">>), PaidRow(<<"1", "5">>), PaidRow(<<"1", "0", "0">>)>>

GroupInputs ==
    UNION {[1..n -> DetectRows] : n \in 0..MaxGroupLen} \cup {ScenarioGroup}

\* the variables of the two main programs, at rest
MainIdle ==
    /\ outlier_rows = <<>>
    /\ current_group_rows = <<>>
    /\ current_key = None
    /\ total_outliers = 0
    /\ total_rows_processed = 0
    /\ sink = Unopened
    /\ input = <<>>
    /\ calls = <<>>
    /\ chunk_size = 0
    /\ partial_groups = <<>>
    /\ outlier_dfs = <<>>

mainVars == <<outlier_rows, current_group_rows, current_key, total_outliers,
              total_rows_processed, sink, input, calls, chunk_size,
              partial_groups, outlier_dfs>>

InitDetect ==
    /\ pc = "call"
    /\ group_rows \in GroupInputs
    /\ returned = <<>>
    /\ MainIdle

\* flagged = detect_outliers(group_rows)
CallDetect ==
    /\ pc = "call"
    /\ returned' = detect_outliers(group_rows)
    /\ pc' = "returned"
    /\ UNCHANGED <<group_rows, mainVars>>

NextDetect == CallDetect

SpecDetect == InitDetect /\ [][NextDetect]_vars

-----------------------------------------------------------------------------
(* What the claims say of a group, stated without the operators above *)

\* the metrics in the order their flags are tested, and the flag of each
MetricOrder == <<"TOTAL_PAID", "PAID_PER_BENEF", "PAID_PER_CLAIM",
                 "TOTAL_UNIQUE_BENEFICIARIES">>

FlagOrder == <<"high_total_paid", "high_paid_per_benef", "high_paid_per_claim",
               "high_unique_beneficiaries">>

IsNumeral(s) == s # <<>> /\ \A i \in 1..Len(s) : s[i] \in DigitChars

RECURSIVE PrefixValue(_, _)
\* the value of the first i digits of a numeral
PrefixValue(s, i) ==
    IF i = 0 THEN 0 ELSE DigitVal[s[i]] + 10 * PrefixValue(s, i - 1)

NumeralValue(s) == PrefixValue(s, Len(s))

\* all three numeric fields of a record parse
ValidNumeric(rec) ==
    /\ IsNumeral(rec.TOTAL_PAID)
    /\ IsNumeral(rec.TOTAL_UNIQUE_BENEFICIARIES)
    /\ IsNumeral(rec.TOTAL_CLAIMS)

ZeroBenef(rec) == NumeralValue(rec.TOTAL_UNIQUE_BENEFICIARIES) = 0

ZeroClaims(rec) == NumeralValue(rec.TOTAL_CLAIMS) = 0

\* the record passes Steps 1-3: valid numeric fields and valid ratios
Survives(rec) == ValidNumeric(rec) /\ ~ZeroBenef(rec) /\ ~ZeroClaims(rec)

Survivors(g) == {i \in 1..Len(g) : Survives(g[i])}

\* the value of a metric of a record with valid numeric fields
MetricValue(rec, m) ==
    LET paid == NumeralValue(rec.TOTAL_PAID)
        benef == NumeralValue(rec.TOTAL_UNIQUE_BENEFICIARIES)
        claims == NumeralValue(rec.TOTAL_CLAIMS)
    IN CASE m = "TOTAL_PAID" -> Num(paid, 1)
         [] m = "TOTAL_UNIQUE_BENEFICIARIES" -> Num(benef, 1)
         [] m = "PAID_PER_BENEF" -> IF benef = 0 THEN NaN ELSE Num(paid, benef)
         [] OTHER -> IF claims = 0 THEN NaN ELSE Num(paid, claims)

\* the values of metric m of the surviving records of g, in group order
SurvivorValues(g, m) ==
    LET Val(rec) == MetricValue(rec, m)
        all == [i \in 1..Len(g) |-> IF Survives(g[i]) THEN Val(g[i]) ELSE NaN]
    IN SelectSeq(all, notna)

\* the j-th smallest (j = 1 the smallest) of the values vals
OrderStat(vals, j) ==
    vals[CHOOSE i \in 1..Len(vals) :
            /\ Cardinality({k \in 1..Len(vals) : Less(vals[k], vals[i])}) < j
            /\ j <= Cardinality({k \in 1..Len(vals) : ~Less(vals[i], vals[k])})]

\* the (q/4)-quantile by linear interpolation: between the order statistics
\* around position q(n-1)/4, weighted by the remainder
Quartile(vals, q) ==
    LET n == Len(vals)
        lo == (q * (n - 1)) \div 4
        r == (q * (n - 1)) % 4
        xlo == OrderStat(vals, lo + 1)
        xhi == OrderStat(vals, IF lo + 2 <= n THEN lo + 2 ELSE n)
    IN Mul(Num(1, 4), Add(Mul(Num(4 - r, 1), xlo), Mul(Num(r, 1), xhi)))

\* Q3 + 1.5 (Q3 - Q1) = (5 Q3 - 3 Q1) / 2 of the values vals; +inf for no values
Fence(vals) ==
    IF vals = <<>> THEN Inf
    ELSE Mul(Num(1, 2), Sub(Mul(Num(5, 1), Quartile(vals, 3)),
                            Mul(Num(3, 1), Quartile(vals, 1))))

\* the fences of the four metrics over the surviving records of g
Fences(g) ==
    <<Fence(SurvivorValues(g, MetricOrder[1])), Fence(SurvivorValues(g, MetricOrder[2])),
      Fence(SurvivorValues(g, MetricOrder[3])), Fence(SurvivorValues(g, MetricOrder[4]))>>

\* the bounds of the four metrics for a group: +inf when fewer than 4 records survive
GroupBounds(g) ==
    IF Cardinality(Survivors(g)) < 4 THEN <<Inf, Inf, Inf, Inf>> ELSE Fences(g)

\* a returned row without the added field
Strip(r) == [f \in DOMAIN r \ {"OUTLIER_REASONS"} |-> r[f]]

\* the OUTLIER_REASONS string of every non-empty flag set
ReasonsOf ==
    [S \in (SUBSET {FlagOrder[k] : k \in 1..4}) \ {{}} |->
        join(SelectSeq(FlagOrder, LAMBDA f : f \in S))]

\* the flag set an OUTLIER_REASONS string stands for
FlagSetOf(reasons) ==
    IF \E S \in DOMAIN ReasonsOf : ReasonsOf[S] = reasons
    THEN CHOOSE S \in DOMAIN ReasonsOf : ReasonsOf[S] = reasons
    ELSE {"unknown"}

\* the flag set the result gives a record: empty when the record is not returned
ReturnedFlags(ret, rec) ==
    IF \E j \in 1..Len(ret) : Strip(ret[j]) = rec
    THEN FlagSetOf(ret[CHOOSE j \in 1..Len(ret) : Strip(ret[j]) = rec].OUTLIER_REASONS)
    ELSE {}

-----------------------------------------------------------------------------
(* Claims about the streaming detect_outliers (SpecDetect) *)

\* C1: for every record that survived Steps 1-3 and each of the four metrics,
\* the metric's flag is in the record's flag set iff the record's value is
\* strictly greater than Q3 + 1.5 (Q3 - Q1), the quartiles taken by linear
\* interpolation over the surviving records; for TOTAL_PAID values
\* 10, 12, 13, 14, 15, 100 only the record with 100 gets high_total_paid.
C1_FlagIffAboveFence ==
    pc = "returned" =>
        /\ \A fence \in {Fences(group_rows)} :
           \A i \in Survivors(group_rows) :
           \A flags \in {ReturnedFlags(returned, group_rows[i])} :
           \A k \in 1..4 :
               (FlagOrder[k] \in flags)
               <=> Less(fence[k], MetricValue(group_rows[i], MetricOrder[k]))
        /\ group_rows = ScenarioGroup =>
              \A i \in 1..6 :
                  ("high_total_paid" \in ReturnedFlags(returned, group_rows[i]))
                  <=> (i = 6)

C1_Witness ==
    /\ pc = "returned"
    /\ group_rows = ScenarioGroup
    /\ "high_total_paid" \in ReturnedFlags(returned, group_rows[6])
    /\ Len(returned) = 1

\* C4: a group in which 3 or fewer records have all three numeric fields
\* parseable yields the empty list, whatever its size.
C4_FewValidRecordsNoResult ==
    (pc = "returned"
     /\ Cardinality({i \in 1..Len(group_rows) : ValidNumeric(group_rows[i])}) <= 3)
    => returned = <<>>

C4_Witness ==
    /\ pc = "returned"
    /\ Len(group_rows) = 5
    /\ Cardinality({i \in 1..Len(group_rows) : ValidNumeric(group_rows[i])}) = 3
    /\ \E i \in 1..Len(group_rows) :
          ValidNumeric(group_rows[i]) /\ NumeralValue(group_rows[i].TOTAL_PAID) = 8
    /\ returned = <<>>

\* C5: a record with a zero TOTAL_UNIQUE_BENEFICIARIES or TOTAL_CLAIMS gets the
\* NaN sentinel as that ratio and never the flag of that ratio, and it gets
\* high_total_paid and high_unique_beneficiaries exactly when its raw value is
\* strictly above the group's bound for that metric.
C5_ZeroDenominator ==
    pc = "returned" =>
        \A bounds \in {GroupBounds(group_rows)} :
        \A i \in 1..Len(group_rows) :
            (ValidNumeric(group_rows[i])
             /\ (ZeroBenef(group_rows[i]) \/ ZeroClaims(group_rows[i])))
            => \A flags \in {ReturnedFlags(returned, group_rows[i])} :
               \A paid \in {MetricValue(group_rows[i], "TOTAL_PAID")} :
               \A benef \in {MetricValue(group_rows[i], "TOTAL_UNIQUE_BENEFICIARIES")} :
                  /\ ZeroBenef(group_rows[i]) =>
                        /\ safe_ratio(paid, benef) = NaN
                        /\ "high_paid_per_benef" \notin flags
                  /\ ZeroClaims(group_rows[i]) =>
                        /\ safe_ratio(paid, Num(0, 1)) = NaN
                        /\ "high_paid_per_claim" \notin flags
                  /\ ("high_total_paid" \in flags) <=> Less(bounds[1], paid)
                  /\ ("high_unique_beneficiaries" \in flags) <=> Less(bounds[4], benef)

C5_Witness ==
    /\ pc = "returned"
    /\ \E i \in 1..Len(group_rows) :
          /\ ValidNumeric(group_rows[i])
          /\ ZeroBenef(group_rows[i])
          /\ ReturnedFlags(returned, group_rows[i])
                = {"high_total_paid", "high_paid_per_claim"}

\* the positions of the records of g whose own values exceed a bound of the group
FlaggedPositions(g) ==
    LET bounds == GroupBounds(g)
    IN {i \in 1..Len(g) :
          /\ ValidNumeric(g[i])
          /\ \E k \in 1..4 : Less(bounds[k], MetricValue(g[i], MetricOrder[k]))}

\* C7: the j-th returned row is the input record at the position of the j-th
\* record whose values produced flags, with every field at its original string
\* value and only OUTLIER_REASONS added.
C7_OriginalRecordReturned ==
    pc = "returned" =>
        \A P \in {FlaggedPositions(group_rows)} :
            /\ Len(returned) = Cardinality(P)
            /\ \A j \in 1..Len(returned) :
               \A p \in {p \in P : Cardinality({q \in P : q < p}) = j - 1} :
                  /\ DOMAIN returned[j] = DOMAIN group_rows[p] \cup {"OUTLIER_REASONS"}
                  /\ \A f \in DOMAIN group_rows[p] : returned[j][f] = group_rows[p][f]

C7_Witness ==
    /\ pc = "returned"
    /\ Len(returned) = 1
    /\ ~ValidNumeric(group_rows[1])
    /\ returned[1].TOTAL_PAID = <<"0", "8">>
    /\ returned[1].BILLING_PROVIDER_NPI_NUM = "p2"

\* all records of g have the same three numeric field values
AllSame(g) ==
    \A i, j \in 1..Len(g) :
        \A c \in {"TOTAL_PAID", "TOTAL_UNIQUE_BENEFICIARIES", "TOTAL_CLAIMS"} :
            \/ g[i][c] = g[j][c]
            \/ /\ IsNumeral(g[i][c])
               /\ IsNumeral(g[j][c])
               /\ NumeralValue(g[i][c]) = NumeralValue(g[j][c])

\* C8: a group whose records all have the same TOTAL_PAID, the same
\* TOTAL_UNIQUE_BENEFICIARIES and the same TOTAL_CLAIMS yields the empty list.
C8_IdenticalValuesNoFlags ==
    (pc = "returned" /\ AllSame(group_rows)) => returned = <<>>

C8_Witness ==
    /\ pc = "returned"
    /\ Len(group_rows) >= 4
    /\ AllSame(group_rows)
    /\ Survivors(group_rows) = 1..Len(group_rows)
    /\ group_rows[1].TOTAL_PAID # group_rows[2].TOTAL_PAID
    /\ returned = <<>>

-----------------------------------------------------------------------------
(* medicaid_outliers-stream.py: main *)

\* key = (row['HCPCS_CODE'], row['CLAIM_FROM_MONTH'])
KeyOf(row) == <<row.HCPCS_CODE, row.CLAIM_FROM_MONTH>>

\* the records of a frame or file with key k, in order
WithKey(file, k) == SelectSeq(file, LAMBDA r : KeyOf(r) = k)

RECURSIVE Flatten(_)
\* the concatenation of a list of lists (list.extend, pd.concat)
Flatten(seqs) == IF seqs = <<>> THEN <<>> ELSE Head(seqs) \o Flatten(Tail(seqs))

\* the locals of main before the loop; calls is the history of the groups
\* passed to detect_outliers
InitState ==
    [outlier_rows |-> <<>>, current_group_rows |-> <<>>, current_key |-> None,
     total_outliers |-> 0, total_rows_processed |-> 0, calls |-> <<>>]

\* the locals of main in the current state
State ==
    [outlier_rows |-> outlier_rows, current_group_rows |-> current_group_rows,
     current_key |-> current_key, total_outliers |-> total_outliers,
     total_rows_processed |-> total_rows_processed, calls |-> calls]

\* outliers = detect_outliers(current_group_rows); if outliers: extend and count
ProcessGroup(s) ==
    LET outliers == detect_outliers(s.current_group_rows)
    IN [s EXCEPT !.outlier_rows = @ \o outliers,
                 !.total_outliers = @ + Len(outliers),
                 !.calls = Append(@, s.current_group_rows)]

\* a variant that appends the record before it tests for the group boundary
LoopBodyAppendFirst(s, row) ==
    LET s0 == [s EXCEPT !.total_rows_processed = @ + 1,
                        !.current_group_rows = Append(@, row)]
        s1 == IF KeyOf(row) # s.current_key /\ s.current_group_rows # <<>>
              THEN [ProcessGroup(s0) EXCEPT !.current_group_rows = <<>>]
              ELSE s0
    IN [s1 EXCEPT !.current_key = KeyOf(row)]

\* a variant that does not empty the buffer after a group is processed
LoopBodyNoReset(s, row) ==
    LET s1 == IF KeyOf(row) # s.current_key /\ s.current_group_rows # <<>>
              THEN ProcessGroup(s)
              ELSE s
    IN [s1 EXCEPT !.total_rows_processed = @ + 1,
                  !.current_key = KeyOf(row),
                  !.current_group_rows = Append(@, row)]

\* one iteration of "for row in reader"
LoopBody(s, row) ==
    LET s1 == IF KeyOf(row) # s.current_key /\ s.current_group_rows # <<>>
              THEN [ProcessGroup(s) EXCEPT !.current_group_rows = <<>>]
              ELSE s
    IN [s1 EXCEPT !.total_rows_processed = @ + 1,
                  !.current_key = KeyOf(row),
                  !.current_group_rows = Append(@, row)]

\* a variant without the end-of-input processing of the buffered group
FinalGroupSkipped(s) == s

\* "Process final group", after the loop
FinalGroup(s) ==
    IF s.current_group_rows # <<>> THEN ProcessGroup(s) ELSE s

RECURSIVE LoopRun(_, _)
\* the loop over all the records of a file, from the locals s
LoopRun(s, file) ==
    IF file = <<>> THEN s ELSE LoopRun(LoopBody(s, Head(file)), Tail(file))

\* main's locals when it reaches "Finished.", for a whole file
RunMain(file) == FinalGroup(LoopRun(InitState, file))

\* the records of the input file in Spec: two keys, a low and a high TOTAL_PAID
MainRows ==
    {Row("A", "2024-01", "p1", <<"1">>, <<"1">>, <<"1">>),
     Row("A", "2024-01", "p2", <<"8">>, <<"1">>, <<"1">>),
     Row("B", "2024-02", "p1", <<"1">>, <<"1">>, <<"1">>),
     Row("B", "2024-02", "p2", <<"8">>, <<"1">>, <<"1">>)}

Init ==
    /\ pc = "reading"
    /\ outlier_rows = InitState.outlier_rows
    /\ current_group_rows = InitState.current_group_rows
    /\ current_key = InitState.current_key
    /\ total_outliers = InitState.total_outliers
    /\ total_rows_processed = InitState.total_rows_processed
    /\ calls = InitState.calls
    /\ input = <<>>
    /\ sink = Unopened
    /\ group_rows = <<>>
    /\ returned = <<>>
    /\ chunk_size = 0
    /\ partial_groups = <<>>
    /\ outlier_dfs = <<>>

\* main's locals become s
SetState(s) ==
    /\ outlier_rows' = s.outlier_rows
    /\ current_group_rows' = s.current_group_rows
    /\ current_key' = s.current_key
    /\ total_outliers' = s.total_outliers
    /\ total_rows_processed' = s.total_rows_processed
    /\ calls' = s.calls

otherVars == <<group_rows, returned, chunk_size, partial_groups, outlier_dfs>>

\* the reader yields a record: one iteration of the loop
ReadRow(row) ==
    /\ pc = "reading"
    /\ Len(input) < MaxRows
    /\ SetState(LoopBody(State, row))
    /\ input' = Append(input, row)
    /\ UNCHANGED <<pc, sink, otherVars>>

\* the reader is exhausted: the final group, then "Finished. Processed ..."
EndOfInput ==
    /\ pc = "reading"
    /\ SetState(FinalGroup(State))
    /\ pc' = "finished"
    /\ UNCHANGED <<input, sink, otherVars>>

\* if total_outliers == 0: "No outliers detected in any metric."; return
ReportNoOutliers ==
    /\ pc = "finished"
    /\ total_outliers = 0
    /\ pc' = "no_outliers"
    /\ UNCHANGED <<outlier_rows, current_group_rows, current_key, total_outliers,
                   total_rows_processed, calls, input, sink, otherVars>>

\* a variant that writes the output file whatever total_outliers is
WriteResultsAlways ==
    /\ pc = "finished"
    /\ sink' = [opened |-> TRUE, rows |-> outlier_rows]
    /\ pc' = "written"
    /\ UNCHANGED <<outlier_rows, current_group_rows, current_key, total_outliers,
                   total_rows_processed, calls, input, otherVars>>

\* open(output_file, 'w'); writer.writerows(outlier_rows); "Found and saved ..."
WriteResults ==
    /\ pc = "finished"
    /\ total_outliers # 0
    /\ sink' = [opened |-> TRUE, rows |-> outlier_rows]
    /\ pc' = "written"
    /\ UNCHANGED <<outlier_rows, current_group_rows, current_key, total_outliers,
                   total_rows_processed, calls, input, otherVars>>

Next ==
    \/ \E row \in MainRows : ReadRow(row)
    \/ EndOfInput
    \/ ReportNoOutliers
    \/ WriteResults

Spec == Init /\ [][Next]_vars

-----------------------------------------------------------------------------
(* Claims about the streaming main (Spec) *)

\* the positions of a file at which a maximal run of equal keys starts
RunStarts(file) ==
    {i \in 1..Len(file) : i = 1 \/ KeyOf(file[i - 1]) # KeyOf(file[i])}

\* the maximal runs of consecutive records with equal key, in file order
MaximalRuns(file) ==
    LET starts == RunStarts(file)
        StartOf(j) == CHOOSE b \in starts : Cardinality({c \in starts : c < b}) = j - 1
        EndOf(j) == IF j = Cardinality(starts) THEN Len(file) ELSE StartOf(j + 1) - 1
    IN [j \in 1..Cardinality(starts) |-> SubSeq(file, StartOf(j), EndOf(j))]

KeysOf(file) == {KeyOf(file[i]) : i \in 1..Len(file)}

\* all records of every key are contiguous in the file
Contiguous(file) ==
    \A i, j \in 1..Len(file) :
        (i < j /\ KeyOf(file[i]) = KeyOf(file[j]))
        => \A k \in i..j : KeyOf(file[k]) = KeyOf(file[i])

\* C2: the groups passed to detect_outliers are exactly the maximal runs of
\* consecutive records with equal key, in input order (the last one still in
\* the buffer while reading), every record read is in exactly one of them, and
\* for an input with contiguous keys each key is passed exactly once with all
\* of its records.
C2_GroupsAreMaximalRuns ==
    /\ pc = "reading" =>
          calls \o (IF current_group_rows = <<>> THEN <<>> ELSE <<current_group_rows>>)
             = MaximalRuns(input)
    /\ pc \in {"finished", "no_outliers", "written"} =>
          /\ calls = MaximalRuns(input)
          /\ Flatten(calls) = input
          /\ Contiguous(input) =>
                \A k \in KeysOf(input) :
                    /\ Cardinality({j \in 1..Len(calls) : KeyOf(calls[j][1]) = k}) = 1
                    /\ \E j \in 1..Len(calls) : calls[j] = WithKey(input, k)

C2_Witness ==
    /\ pc = "finished"
    /\ Contiguous(input)
    /\ Len(calls) = 2
    /\ Len(calls[1]) >= 2
    /\ Len(calls[2]) >= 2

\* C3: when the input is exhausted the last buffered group is passed to
\* detect_outliers: its flagged records end the output accumulator and are
\* counted, exactly as when a record of another key follows the group.
C3_FinalGroupProcessed ==
    (pc = "finished" /\ input # <<>>) =>
        \A runs \in {MaximalRuns(input)} :
        \A flagged \in {detect_outliers(runs[Len(runs)])} :
            /\ calls # <<>>
            /\ calls[Len(calls)] = runs[Len(runs)]
            /\ Len(outlier_rows) >= Len(flagged)
            /\ SubSeq(outlier_rows, Len(outlier_rows) - Len(flagged) + 1,
                      Len(outlier_rows)) = flagged
            /\ total_outliers = Len(outlier_rows)
            /\ \A row \in MainRows :
                  KeyOf(row) # KeyOf(input[Len(input)]) =>
                      \A s \in {LoopRun(InitState, Append(input, row))} :
                          /\ s.outlier_rows = outlier_rows
                          /\ s.total_outliers = total_outliers

C3_Witness ==
    /\ pc = "finished"
    /\ Len(calls) = 2
    /\ detect_outliers(calls[1]) = <<>>
    /\ outlier_rows # <<>>

\* the file with records i and i+1 exchanged
Swap(file, i) ==
    [k \in 1..Len(file) |->
        IF k = i THEN file[i + 1] ELSE IF k = i + 1 THEN file[i] ELSE file[k]]

\* the file with record i duplicated
Duplicate(file, i) == SubSeq(file, 1, i) \o SubSeq(file, i, Len(file))

\* a group with two adjacent records exchanged or one record duplicated; every
\* permutation and every duplication is a sequence of these steps
Variants(g) ==
    {Swap(g, i) : i \in 1..(Len(g) - 1)} \cup {Duplicate(g, i) : i \in 1..Len(g)}

\* C6: for a sorted input of two groups with different keys, the flagged rows
\* (hence the flag set of every record) of either group are the same when the
\* records of the other group are permuted or duplicated.
C6_GroupsIndependent ==
    (pc = "finished" /\ Cardinality(RunStarts(input)) = 2) =>
        \A runs \in {MaximalRuns(input)} :
        \A g1 \in {runs[1]} :
        \A g2 \in {runs[2]} :
            KeyOf(g1[1]) # KeyOf(g2[1]) =>
                /\ \A v \in Variants(g2) :
                      WithKey(RunMain(g1 \o v).outlier_rows, KeyOf(g1[1]))
                         = WithKey(outlier_rows, KeyOf(g1[1]))
                /\ \A v \in Variants(g1) :
                      WithKey(RunMain(v \o g2).outlier_rows, KeyOf(g2[1]))
                         = WithKey(outlier_rows, KeyOf(g2[1]))

C6_Witness ==
    /\ pc = "finished"
    /\ Len(calls) = 2
    /\ KeyOf(calls[1][1]) # KeyOf(calls[2][1])
    /\ Len(calls[2]) >= 2
    /\ calls[2][1] # calls[2][2]
    /\ WithKey(outlier_rows, KeyOf(calls[1][1])) # <<>>

\* C9: the output file is written exactly when at least one record was flagged:
\* with none, the run ends in the 'no outliers' report and the file is never
\* opened; otherwise the file holds exactly the flagged rows of all the groups,
\* in order, and total_outliers is their number.
C9_SinkWrittenIffFlagged ==
    /\ pc = "reading" => sink = Unopened
    /\ pc \in {"finished", "no_outliers", "written"} =>
          \A flagged \in {Flatten([j \in 1..Len(calls) |-> detect_outliers(calls[j])])} :
              /\ pc = "finished" =>
                    (sink = Unopened /\ (total_outliers = 0 <=> flagged = <<>>))
              /\ pc = "no_outliers" => (flagged = <<>> /\ sink = Unopened)
              /\ pc = "written" =>
                    /\ flagged # <<>>
                    /\ sink = [opened |-> TRUE, rows |-> flagged]
                    /\ total_outliers = Len(flagged)

C9_Witness ==
    /\ pc = "written"
    /\ Len(calls) >= 2
    /\ sink.rows # <<>>
    /\ sink.rows = outlier_rows

-----------------------------------------------------------------------------
(* medicaid_outliers.py: detect_outliers, main *)

\* a missing value of a string column as read_csv yields it (NaN)
NA == "<NA>"

\* a record of a chunk as read_csv yields it: TOTAL_PAID is a float
ChunkRow(hcpcs, month, npi, paid) ==
    [HCPCS_CODE |-> hcpcs, CLAIM_FROM_MONTH |-> month,
     BILLING_PROVIDER_NPI_NUM |-> npi, TOTAL_PAID |-> Num(paid, 1),
     TOTAL_UNIQUE_BENEFICIARIES |-> 1, TOTAL_CLAIMS |-> 1]

\* the records of the input file in SpecChunked: two procedure codes and an
\* empty HCPCS_CODE cell, a low and a high TOTAL_PAID
ChunkRows ==
    {ChunkRow("A", "2024-01", "p1", 1), ChunkRow("A", "2024-01", "p2", 8),
     ChunkRow("B", "2024-01", "p1", 1), ChunkRow(NA, "2024-01", "p2", 8)}

\* the order in which groupby sorts the key values of the model
HcpcsRank == "A" :> 1 @@ "B" :> 2

MonthRank == "2024-01" :> 1

\* group[group['TOTAL_PAID'] > upper_bound], or the empty frame for a small group
chunked_detect_outliers(group) ==
    IF Len(group) < MinGroupRows THEN <<>>
    ELSE LET paid == Column(group, "TOTAL_PAID")
             Q1 == quantile(paid, 1, 4)
             Q3 == quantile(paid, 3, 4)
             IQR == Sub(Q3, Q1)
             upper_bound == Add(Q3, Mul(Num(3, 2), IQR))
         IN SelectSeq(group, LAMBDA r : Greater(r.TOTAL_PAID, upper_bound))

\* the keys chunk.groupby([...]) iterates over, sorted: a record with a missing
\* key component belongs to no group (dropna=True)
GroupbyKeys(chunk) ==
    LET present == {KeyOf(chunk[i]) : i \in {j \in 1..Len(chunk) :
                        chunk[j].HCPCS_CODE # NA /\ chunk[j].CLAIM_FROM_MONTH # NA}}
        Before(a, b) ==
            \/ HcpcsRank[a[1]] < HcpcsRank[b[1]]
            \/ a[1] = b[1] /\ MonthRank[a[2]] < MonthRank[b[2]]
        Nth(n) == CHOOSE k \in present :
                      Cardinality({o \in present : Before(o, k)}) = n - 1
    IN [n \in 1..Cardinality(present) |-> Nth(n)]

\* the position of key k in the dict, 0 when absent
KeyIndex(groups, k) ==
    IF \E i \in 1..Len(groups) : groups[i].key = k
    THEN CHOOSE i \in 1..Len(groups) : groups[i].key = k
    ELSE 0

\* a variant that keeps only the latest sub-frame of a key
AppendSubFrameReplacing(groups, k, sub_df) ==
    IF KeyIndex(groups, k) = 0
    THEN Append(groups, [key |-> k, frames |-> <<sub_df>>])
    ELSE [groups EXCEPT ![KeyIndex(groups, k)].frames = <<sub_df>>]

\* partial_groups[(hcpcs, month)].append(sub_df) on the defaultdict(list): a
\* new key is inserted last
AppendSubFrame(groups, k, sub_df) ==
    IF KeyIndex(groups, k) = 0
    THEN Append(groups, [key |-> k, frames |-> <<sub_df>>])
    ELSE [groups EXCEPT ![KeyIndex(groups, k)].frames = Append(@, sub_df)]

RECURSIVE GroupChunk(_, _, _)
\* for (hcpcs, month), sub_df in chunk.groupby([...]): ... (keys n.. of the chunk)
GroupChunk(groups, chunk, n) ==
    LET keys == GroupbyKeys(chunk)
    IN IF n > Len(keys) THEN groups
       ELSE GroupChunk(AppendSubFrame(groups, keys[n], WithKey(chunk, keys[n])),
                       chunk, n + 1)

InitChunked ==
    /\ pc = "chunks"
    /\ chunk_size \in 1..MaxChunkSize
    /\ partial_groups = <<>>
    /\ outlier_dfs = <<>>
    /\ total_rows_processed = 0
    /\ total_outliers = 0
    /\ input = <<>>
    /\ calls = <<>>
    /\ sink = Unopened
    /\ outlier_rows = <<>>
    /\ current_group_rows = <<>>
    /\ current_key = None
    /\ group_rows = <<>>
    /\ returned = <<>>

streamVars == <<outlier_rows, current_group_rows, current_key, group_rows, returned>>

\* one iteration of "for chunk in chunks"
ProcessChunk(chunk) ==
    /\ total_rows_processed' = total_rows_processed + Len(chunk)
    /\ partial_groups' = GroupChunk(partial_groups, chunk, 1)
    /\ input' = input \o chunk
    /\ UNCHANGED <<chunk_size, outlier_dfs, total_outliers, calls, sink, streamVars>>

\* read_csv yields a chunk of chunk_size records
ReadChunk(chunk) ==
    /\ pc = "chunks"
    /\ Len(chunk) = chunk_size
    /\ Len(input) + Len(chunk) <= MaxChunkedRows
    /\ ProcessChunk(chunk)
    /\ pc' = "chunks"

\* read_csv yields the last, shorter chunk
ReadShortChunk(chunk) ==
    /\ pc = "chunks"
    /\ Len(chunk) < chunk_size
    /\ Len(input) + Len(chunk) <= MaxChunkedRows
    /\ ProcessChunk(chunk)
    /\ pc' = "finalizing"

\* read_csv is exhausted after a full chunk: "Finished reading ... rows"
EndOfChunks ==
    /\ pc = "chunks"
    /\ pc' = "finalizing"
    /\ UNCHANGED <<chunk_size, partial_groups, outlier_dfs, total_outliers,
                   total_rows_processed, input, calls, sink, streamVars>>

\* one iteration of "for key in group_keys": the keys are taken in the dict's
\* order and each is deleted when done, so the next key is the first one left
DetectGroup ==
    /\ pc = "finalizing"
    /\ partial_groups # <<>>
    /\ LET full_group == Flatten(partial_groups[1].frames)
           outliers == chunked_detect_outliers(full_group)
       IN /\ calls' = Append(calls, full_group)
          /\ outlier_dfs' = IF outliers # <<>> THEN Append(outlier_dfs, outliers)
                            ELSE outlier_dfs
    /\ partial_groups' = Tail(partial_groups)
    /\ UNCHANGED <<pc, chunk_size, total_outliers, total_rows_processed, input,
                   sink, streamVars>>

\* if not outlier_dfs: "No outliers detected."; return
ChunkedNoOutliers ==
    /\ pc = "finalizing"
    /\ partial_groups = <<>>
    /\ outlier_dfs = <<>>
    /\ pc' = "no_outliers"
    /\ UNCHANGED <<chunk_size, partial_groups, outlier_dfs, total_outliers,
                   total_rows_processed, input, calls, sink, streamVars>>

\* outliers_df = pd.concat(outlier_dfs); outliers_df.to_csv(output_file)
ChunkedWrite ==
    /\ pc = "finalizing"
    /\ partial_groups = <<>>
    /\ outlier_dfs # <<>>
    /\ total_outliers' = Len(Flatten(outlier_dfs))
    /\ sink' = [opened |-> TRUE, rows |-> Flatten(outlier_dfs)]
    /\ pc' = "written"
    /\ UNCHANGED <<chunk_size, partial_groups, outlier_dfs, total_rows_processed,
                   input, calls, streamVars>>

NextChunked ==
    \/ \E n \in 1..MaxChunkSize : \E chunk \in [1..n -> ChunkRows] : ReadChunk(chunk)
    \/ \E n \in 1..MaxChunkSize : \E chunk \in [1..n -> ChunkRows] : ReadShortChunk(chunk)
    \/ EndOfChunks
    \/ DetectGroup
    \/ ChunkedNoOutliers
    \/ ChunkedWrite

SpecChunked == InitChunked /\ [][NextChunked]_vars

-----------------------------------------------------------------------------
(* Claims about the chunked main (SpecChunked) *)

\* the keys of a file both of whose components are present
PresentKeys(file) == {k \in KeysOf(file) : k[1] # NA /\ k[2] # NA}

\* how many times record r occurs in a sequence
Count(r, file) == Cardinality({i \in 1..Len(file) : file[i] = r})

\* record r of the file is above the upper fence of the TOTAL_PAID values of
\* all the records of the file with its key, which are at least 4
AboveKeyFence(file, r) ==
    LET peers == WithKey(file, KeyOf(r))
        vals == SelectSeq(Column(peers, "TOTAL_PAID"), notna)
    IN Len(peers) >= 4 /\ Less(Fence(vals), r.TOTAL_PAID)

\* detect_outliers was called exactly once for key k, on all records of the key
CalledOnceOnAll(k) ==
    /\ Cardinality({j \in 1..Len(calls) : KeyOf(calls[j][1]) = k}) = 1
    /\ \E j \in 1..Len(calls) : calls[j] = WithKey(input, k)

\* C10 as stated: for every chunk size and input order, detect_outliers is
\* called exactly once per distinct key of the input, after all input has been
\* read, on all the input records with that key.
C10_OncePerKey ==
    /\ pc = "chunks" => calls = <<>>
    /\ pc \in {"no_outliers", "written"} =>
          \A k \in KeysOf(input) : CalledOnceOnAll(k)

\* C10 amended: detect_outliers is called exactly once per distinct key both of
\* whose components are present, after all input has been read, on all the
\* input records with that key (records with a missing key component reach no
\* call); the flagged records are those above the fence of their key's records,
\* whatever the chunk size and the input order.
C10_OncePerPresentKey ==
    /\ pc = "chunks" => calls = <<>>
    /\ pc = "finalizing" =>
          \A j \in 1..Len(calls) : calls[j] = WithKey(input, KeyOf(calls[j][1]))
    /\ pc \in {"no_outliers", "written"} =>
          /\ \A k \in PresentKeys(input) : CalledOnceOnAll(k)
          /\ Len(calls) = Cardinality(PresentKeys(input))
          /\ \A r \in ChunkRows :
                Count(r, Flatten(outlier_dfs))
                   = IF r.HCPCS_CODE # NA /\ AboveKeyFence(input, r)
                     THEN Count(r, input) ELSE 0
          /\ pc = "written" => sink.rows = Flatten(outlier_dfs)

C10_Witness ==
    /\ pc = "written"
    /\ chunk_size = 2
    /\ ~Contiguous(input)
    /\ Len(calls) = 2
    /\ \E i \in 1..Len(input) : input[i].HCPCS_CODE = NA
    /\ sink.rows # <<>>

=============================================================================
